---- MODULE Spec2Model ----
(***************************************************************************)
(* Differentiable batch execution of quantum tapes: the Autograd and JAX   *)
(* interfaces of pennylane (pennylane/interfaces/autograd.py, jax.py).     *)
(*                                                                         *)
(* The host AD engine is the environment.  It calls execute once (the      *)
(* outermost call), and afterwards, whenever it likes and as often as it   *)
(* likes, the derivative rules the call registered: the autograd vjp       *)
(* factories and their grad_fn closures, the JAX custom_jvp / custom_vjp   *)
(* rules.  A derivative rule may re-enter execute; every such call is a    *)
(* new frame, whose own derivative rule the host may call in turn (a       *)
(* derivative of a derivative).                                            *)
(***************************************************************************)
EXTENDS Integers, Sequences, FiniteSets, TLC

\* ---------------------------------------------------------------- bounds
MaxBatch == 2     \* tapes in one batch
MaxDiff == 2      \* largest _n and max_diff the outermost caller passes
MaxFrames == 2    \* calls of execute in one behaviour (outermost + nested)
MaxCalls == 2     \* calls of one grad_fn closure
NShots == 2       \* partitions of a shot vector

VARIABLES
    active,   \* qml.active_return(): the process-wide result-mode switch
    frames,   \* the calls of execute made so far, in call order
    last      \* what the latest call did: calls it made, value it returned

vars == <<active, frames, last>>

\* ------------------------------------------------------------- utilities
Min(a, b) == IF a < b THEN a ELSE b

Range(s) == {s[i] : i \in 1..Len(s)}

RECURSIVE Flatten(_)
Flatten(ss) == IF Len(ss) = 0 THEN <<>> ELSE Head(ss) \o Flatten(Tail(ss))

\* ----------------------------------------------------------------- tapes
\* A tape: params[k] says whether parameter k is a trainable (AD-tracked)
\* value, trainable_params is the tape's mutable index set, nmeas its number
\* of measurements and meas their types.  Tape i of a batch has i parameters
\* and i measurements.
AllTrainable(i) == [k \in 1..i |-> TRUE]

NoneTrainable(i) == [k \in 1..i |-> FALSE]

ParamPatterns == {"all", "none"}

\* tape.measurements of tape i, by the kind of the batch: expectation values,
\* counts (CountsMP), a probability (ProbabilityMP) followed by expectation
\* values, or probabilities only
MeasTypes(i, kind) ==
    [m \in 1..i |-> IF kind = "counts" THEN "counts"
                    ELSE IF kind = "mixed" /\ m = 1 THEN "probs"
                    ELSE IF kind = "probs" THEN "probs"
                    ELSE "expval"]

MkTape(i, pat, kind) ==
    [params |-> IF pat = "all" THEN AllTrainable(i) ELSE NoneTrainable(i),
     trainable_params |-> 1..i,
     nmeas |-> i,
     meas |-> MeasTypes(i, kind)]

MkBatch(b, pat, kind) == [i \in 1..b |-> MkTape(i, pat, kind)]

\* Batches with probability measurements only: tape 1 with one, tape 2 with
\* two, in both orders, and a tape of one expectation value before tape 2.
ProbsBatches ==
    {<<MkTape(1, "all", "probs"), MkTape(2, "all", "probs")>>,
     <<MkTape(2, "all", "probs"), MkTape(1, "all", "probs")>>,
     <<MkTape(1, "all", "expval"), MkTape(2, "all", "probs")>>}

Batches ==
    {MkBatch(b, pat, "expval") : b \in 0..MaxBatch, pat \in ParamPatterns}
        \cup {MkBatch(b, "none", kind) : b \in 1..MaxBatch, kind \in {"counts", "mixed"}}

\* any(isinstance(m, CountsMP) for m in tape.measurements)
HasCounts(t) == \E m \in 1..Len(t.meas) : t.meas[m] = "counts"

\* qml.math.get_trainable_indices(params)
GetTrainableIndices(params) == {k \in 1..Len(params) : params[k]}

\* for tape in tapes: tape.trainable_params = get_trainable_indices(params)
SetTrainableParams(tapes) ==
    [i \in 1..Len(tapes) |->
        [tapes[i] EXCEPT !.trainable_params = GetTrainableIndices(tapes[i].params)]]

\* -------------------------------------------------------- gradient rules
\* gradient_fn: None, a gradient transform (isinstance(gradient_fn,
\* gradient_transform)) or a terminal device method; ps says whether its
\* __name__ is "param_shift", the name of a gradient transform.
NoRule == [kind |-> "none", ps |-> FALSE]

GradRules ==
    {NoRule,
     [kind |-> "transform", ps |-> TRUE],
     [kind |-> "transform", ps |-> FALSE],
     [kind |-> "terminal", ps |-> FALSE]}

\* every rule taken for a gradient transform
IsAnyRule(g) == g.kind # "none"

\* isinstance(gradient_fn, qml.gradients.gradient_transform)
IsTransform(g) == g.kind = "transform"

\* gradient_fn and gradient_fn.__name__ == "param_shift"
IsParamShift(g) == g.kind # "none" /\ g.ps

\* ---------------------------------------------------------------- values
\* The result of tape i: one part per shot partition (one part when sampling
\* is not partitioned), each part with one item per measurement; an item is
\* named by the container that holds it: "np" as the backend returns an
\* array, "dict" as it returns the counts of a CountsMP.
ResultOf(i, t, shots) ==
    [tape |-> i,
     shotvec |-> shots > 0,
     tuple |-> t.nmeas > 1,
     parts |-> [p \in 1..(IF shots > 0 THEN shots ELSE 1) |->
                   [m \in 1..t.nmeas |->
                       IF t.meas[m] = "counts" THEN "dict" ELSE "np"]]]

\* The Jacobian of tape i, by the place that computed it (src: "backend",
\* "cache", "rule"), the vjp closure that computed it (inv, 0: none) and the
\* run of that computation (run); n is its number of shot partitions.
JacOf(i, shots, src, inv, run) ==
    [tape |-> i, n |-> shots, src |-> src, inv |-> inv, run |-> run]

JacsOf(b, shots, src, inv, run) == [i \in 1..b |-> JacOf(i, shots, src, inv, run)]

\* The cotangent (tangent) entry of tape i with the structure of the result.
DyOf(i, shots) == [tape |-> i, n |-> shots]

DyFor(b, shots) == [i \in 1..b |-> DyOf(i, shots)]

\* The cotangents a backward rule may be handed for b tapes: with the
\* structure of the result ("ok"), with one entry too few or too many, or
\* with one shot partition too few in every entry.
DyShapes == {"ok", "short", "long", "fewparts"}

DyShaped(b, shots, shape) ==
    IF shape = "short" THEN DyFor(b - 1, shots)
    ELSE IF shape = "long" THEN DyFor(b + 1, shots)
    ELSE IF shape = "fewparts" THEN DyFor(b, shots - 1)
    ELSE DyFor(b, shots)

\* the shapes that exist for b tapes
DyShapeFits(b, shots, shape) ==
    /\ shape = "short" => b > 0
    /\ shape = "fewparts" => b > 0 /\ shots > 1

\* x as one object, and the sequence python iterates when it loops over x
Part(x, k) == [tape |-> x.tape, part |-> k]

Whole(x) == Part(x, 0)

Iter(x) == [k \in 1..x.n |-> Part(x, k)]

\* convert_to_numpy_parameters(t): a new tape with the operations and
\* measurements of t whose parameters are plain numbers
ConvertToNumpyParameters(t) == [t EXCEPT !.params = NoneTrainable(Len(t.params))]

\* tuple(convert_to_numpy_parameters(t) for t in tapes), and
\* set_parameters_on_copy_and_unwrap(tapes, params)
Unwrapped(tapes) == [i \in 1..Len(tapes) |-> ConvertToNumpyParameters(tapes[i])]

\* the substitution written into the caller's tapes
CallerTapesOverwritten(tapes, new_tapes) == new_tapes

\* the caller's tapes after new_tapes were made from them: bind_new_parameters
\* and convert_to_numpy_parameters return new tapes
CallerTapes(tapes, new_tapes) == tapes

\* ----------------------------------------------------------- the backend
\* execute_fn(tapes, **kwargs) -> (results, jacobians): results in tape
\* order; jacobians is empty unless the backend computes them eagerly
\* (fwdJ, a property of the execute_fn the caller passes).
ExecuteFn(tapes, shots, fwdJ) ==
    [res |-> [i \in 1..Len(tapes) |-> ResultOf(i, tapes[i], shots)],
     jacs |-> IF fwdJ THEN JacsOf(Len(tapes), shots, "backend", 0, 0) ELSE <<>>]

\* every call of execute_fn given the gradient_kwargs
PassesKwargsAlways(site) == TRUE

\* whether the call of execute_fn at a site is execute_fn(tapes,
\* **gradient_kwargs): it is on the forward pass and in the Jacobian cache;
\* the rules run the gradient tapes of a transform by execute_fn(vjp_tapes)
PassesKwargs(site) == site # "direct"

\* One call made by a handler: fn is the callee, site the place of the call
\* in this code, batch the tapes passed ("primal": the tapes of the frame,
\* "grad": gradient tapes), conv whether convert_to_numpy_parameters was
\* applied to them ("converted"), to the tapes they were derived from
\* ("derived") or not at all ("raw"), kwargs whether gradient_kwargs was
\* passed, n and md the nesting state of the execute call that makes the call
\* (for fn = "execute": the _n and max_diff passed).
Ev(fn, site, batch, conv, kwargs, n, md) ==
    [fn |-> fn, site |-> site, batch |-> batch, conv |-> conv,
     kwargs |-> kwargs, n |-> n, md |-> md]

\* tapes that keep their parameters as they are
TapeFormRaw(unwrap, derived) == "raw"

\* The form of the tapes a call passes: convert_to_numpy_parameters applied
\* to them (unwrap) or not, the tapes themselves or gradient tapes made from
\* them (derived).  set_parameters_on_copy_and_unwrap(tapes, params, unwrap)
\* converts the copies it makes exactly when unwrap holds.
TapeForm(unwrap, derived) ==
    IF ~unwrap THEN "raw" ELSE IF derived THEN "derived" ELSE "converted"

\* ------------------------------------------------------------- execute
\* The arguments of one call of execute; parent is the frame whose
\* derivative rule makes the call (0: the outermost caller).
Args(tapes, gfn, n, md, shots, fwdJ, parent) ==
    [tapes |-> tapes, gfn |-> gfn, n |-> n, md |-> md, shots |-> shots,
     fwdJ |-> fwdJ, parent |-> parent]

\* _n=_n + 1
NextDepth(f) == f.n + 1

\* The gradient tapes qml.gradients.batch_vjp / batch_jvp make for a batch:
\* for every tape, one parameter-shifted copy per trainable parameter.
GradTapes(tapes) ==
    Flatten([i \in 1..Len(tapes) |->
                [k \in 1..Cardinality(tapes[i].trainable_params) |-> tapes[i]]])

\* The arguments of the call a derivative rule of frame fi makes on its
\* gradient tapes: same device, execute_fn, gradient_fn and max_diff.
Nested(fi) ==
    Args(GradTapes(frames[fi].tapes), frames[fi].gfn, NextDepth(frames[fi]),
         frames[fi].md, frames[fi].shots, frames[fi].fwdJ, fi)

\* The closure the vjp factory makes (autograd calls the factory once for
\* every call of the primitive, when it records the call): cached_jac = {},
\* empty (has is FALSE) until _get_jac_with_caching fills it with jac.
\* calls, fills and execs count the calls of its grad_fn that returned or
\* raised an error of this code, the fills of its cache and the calls of
\* execute_fn those calls made; a call the backend failed is not counted.
NewClosure == [has |-> FALSE, jac |-> <<>>, calls |-> 0, fills |-> 0, execs |-> 0]

\* A frame is one call of execute that returned: its arguments, the tapes as
\* the caller passed them (given) and as they are now (tapes), the
\* trainable_params they had on receipt (recv), what it returned: res,
\* in the shape "batch" (one entry per tape) or "pair" ((res, jacs)), and
\* jacs, the Jacobian part of the backend's answer that stays available to
\* its derivative rule; and the closure of its derivative rule (cl).
MkFrame(iface, legacy, path, a, tapes, res, shape, jacs) ==
    [iface |-> iface, legacy |-> legacy, path |-> path,
     tapes |-> CallerTapes(tapes, Unwrapped(tapes)), given |-> a.tapes,
     recv |-> [i \in 1..Len(a.tapes) |-> a.tapes[i].trainable_params],
     gfn |-> a.gfn, n |-> a.n, md |-> a.md, shots |-> a.shots, fwdJ |-> a.fwdJ,
     parent |-> a.parent, res |-> res, shape |-> shape, jacs |-> jacs,
     cl |-> NewClosure]

\* what a call of execute does: the error it raised ("none": it returned),
\* its frame, the calls it made, the caller's tapes as it leaves them (left)
Done(frame, trace) ==
    [err |-> "none", frame |-> <<frame>>, trace |-> trace, left |-> frame.tapes]

Raised(err, trace, left) ==
    [err |-> err, frame |-> <<>>, trace |-> trace, left |-> left]

\* ------------------------------------------------------ autograd: forward
\* __execute_legacy, lines 116-130: the result of a tape with a CountsMP is
\* skipped, every other array result becomes a tensor
ToTensor(tapes, res) ==
    [i \in 1..Len(res) |->
        IF HasCounts(tapes[i])
        THEN res[i]
        ELSE [res[i] EXCEPT !.parts =
                 [p \in 1..Len(@) |->
                     [m \in 1..Len(@[p]) |->
                         IF @[p][m] = "np" THEN "tensor" ELSE @[p][m]]]]]

\* _execute_legacy and the primitive __execute_legacy
AgExecuteLegacy(a) ==
    LET ts == SetTrainableParams(a.tapes)
        out == ExecuteFn(Unwrapped(ts), a.shots, a.fwdJ)
    IN Done(MkFrame("autograd", TRUE, "prim", a, ts, ToTensor(ts, out.res), "batch",
                    out.jacs),
            <<Ev("execute_fn", "forward", "primal", TapeForm(TRUE, FALSE),
                PassesKwargs("forward"), a.n, a.md)>>)

\* the canonical part of execute and the primitive _execute
AgExecuteNew(a) ==
    LET ts == SetTrainableParams(a.tapes)
        out == ExecuteFn(Unwrapped(ts), a.shots, a.fwdJ)
    IN Done(MkFrame("autograd", FALSE, "prim", a, ts, out.res, "batch", out.jacs),
            <<Ev("execute_fn", "forward", "primal", TapeForm(TRUE, FALSE),
                PassesKwargs("forward"), a.n, a.md)>>)

\* execute: the legacy implementation unless qml.active_return() (act)
AgExecute(a, act) == IF ~act THEN AgExecuteLegacy(a) ELSE AgExecuteNew(a)

\* ------------------------------------------------- autograd: derivatives
\* a cache that never holds an entry: every call recomputes
CacheNeverHas(v) == FALSE

\* "jacobian" in cached_jac, in the closure of frame v
CacheHas(v) == frames[v].cl.has

\* a cache shared by all closures: the slot of the first one
CacheGetShared(v) == frames[1].cl.jac

\* cached_jac["jacobian"], in the closure of frame v
CacheGet(v) == frames[v].cl.jac

\* what a derivative rule does: the closure afterwards, the calls it made,
\* the value it returned (or the error it raised), the frames of the execute
\* calls it made, the Jacobians it contracted (jacs; empty when the products
\* come from gradient tapes)
Outcome(inv, trace, vjps, err, sub, jacs) ==
    [inv |-> inv, trace |-> trace, vjps |-> vjps, err |-> err, sub |-> sub,
     jacs |-> jacs]

\* qml.gradients.compute_vjp_single / compute_vjp_multi of one cotangent part
\* d and one Jacobian part j: the contraction, by its rule and its operands
Contract(rule, d, j) == [rule |-> rule, d |-> d, j |-> j]

\* ---------------------------------------------------- contractions, valued
RECURSIVE SumSeq(_)
SumSeq(s) == IF Len(s) = 0 THEN 0 ELSE Head(s) + SumSeq(Tail(s))

\* qml.gradients.compute_vjp_single(dy, jac) for a scalar measurement: dy is
\* a number, jac has one entry per trainable parameter
ComputeVjpSingle(dy, jac) == [p \in 1..Len(jac) |-> dy * jac[p]]

\* a contraction that reads the first measurement only
ComputeVjpMultiFirst(dy, jac) == [p \in 1..Len(jac[1]) |-> dy[1] * jac[1][p]]

\* qml.gradients.compute_vjp_multi(dy, jac): dy has one entry per
\* measurement, jac[m] is the Jacobian of measurement m
ComputeVjpMulti(dy, jac) ==
    [p \in 1..Len(jac[1]) |-> SumSeq([m \in 1..Len(dy) |-> dy[m] * jac[m][p]])]

\* qml.math.sum(qml.math.stack(shot_vjps), axis=0)
SumStack(vs) ==
    [p \in 1..Len(vs[1]) |-> SumSeq([k \in 1..Len(vs) |-> vs[k][p]])]

\* the value of the contraction c of an unpartitioned batch whose cotangent
\* is dys and whose Jacobians are jacs
ContractValue(c, dys, jacs) ==
    IF c.rule = "multi"
    THEN ComputeVjpMulti(dys[c.d.tape], jacs[c.j.tape])
    ELSE ComputeVjpSingle(dys[c.d.tape], jacs[c.j.tape])

\* the values of the products vjps
VjpValues(vjps, dys, jacs) ==
    [i \in 1..Len(vjps) |->
        SumStack([k \in 1..Len(vjps[i]) |-> ContractValue(vjps[i][k], dys, jacs)])]

\* the contraction of the first shot partition alone, no sum
ComputeVjpsFirstShot(jacs, dy, multi_measurements, has_partitioned_shots) ==
    IF Len(dy) < Len(multi_measurements) \/ Len(jacs) < Len(multi_measurements)
    THEN [err |-> "IndexError", val |-> <<>>]
    ELSE [err |-> "none",
          val |-> [i \in 1..Len(multi_measurements) |->
                      <<Contract(IF multi_measurements[i] THEN "multi" ELSE "single",
                                 IF has_partitioned_shots
                                 THEN Part(dy[i], 1) ELSE Whole(dy[i]),
                                 IF has_partitioned_shots
                                 THEN Part(jacs[i], 1) ELSE Whole(jacs[i]))>>]]

\* _compute_vjps_autograd: vjps[i] is the sum over the shot partitions of
\* the contractions of tape i (a sequence of summands)
ComputeVjpsAutograd(jacs, dy, multi_measurements, has_partitioned_shots) ==
    LET dy_(i) == IF has_partitioned_shots THEN Iter(dy[i]) ELSE <<Whole(dy[i])>>
        jac_(i) == IF has_partitioned_shots THEN Iter(jacs[i]) ELSE <<Whole(jacs[i])>>
        shot_vjps(i) ==
            [k \in 1..Min(Len(dy_(i)), Len(jac_(i))) |->
                Contract(IF multi_measurements[i] THEN "multi" ELSE "single",
                         dy_(i)[k], jac_(i)[k])]
    IN IF Len(dy) < Len(multi_measurements) \/ Len(jacs) < Len(multi_measurements)
       THEN [err |-> "IndexError", val |-> <<>>]
       ELSE IF \E i \in 1..Len(multi_measurements) : Len(shot_vjps(i)) = 0
       THEN [err |-> "ValueError", val |-> <<>>]
       ELSE [err |-> "none",
             val |-> [i \in 1..Len(multi_measurements) |-> shot_vjps(i)]]

\* [compute_vjp(d, jac) for d, jac in zip(dy, jacs)]
ZipVjps(dy, jacs) ==
    [k \in 1..Min(Len(dy), Len(jacs)) |->
        <<Contract("compute_vjp", Whole(dy[k]), Whole(jacs[k]))>>]

\* processing_fn of qml.gradients.batch_vjp / batch_jvp(tapes, dy, ...,
\* reduction="append") applied to the results of its gradient tapes: one
\* product per tape, in tape order
BatchProduct(rule, tapes, dy) ==
    [i \in 1..Len(tapes) |->
        <<Contract(rule, Whole(dy[i]), [tape |-> i, part |-> 0])>>]

\* grad_fn calls _get_jac_with_caching()
CacheCall(f) == Ev("_get_jac_with_caching", "cache", "primal", TapeForm(FALSE, FALSE), FALSE, f.n, f.md)

\* vjp._get_jac_with_caching of the closure of frame v: one gradient_fn call per tape
\* (map_batch_transform), one execute_fn call on all their gradient tapes
GetJacWithCaching(v) ==
    LET inv == frames[v].cl
        f == frames[v]
        jacs == JacsOf(Len(f.tapes), f.shots, "cache", v, inv.fills + 1)
    IN IF CacheHas(v)
       THEN [jacs |-> CacheGet(v), inv |-> inv, trace |-> <<CacheCall(f)>>]
       ELSE [jacs |-> jacs,
             inv |-> [inv EXCEPT !.has = TRUE, !.jac = jacs, !.fills = @ + 1],
             trace |-> <<CacheCall(f)>> \o [i \in 1..Len(f.tapes) |->
                           Ev("gradient_fn", "cache", "primal", TapeForm(FALSE, FALSE), TRUE, f.n, f.md)]
                       \o <<Ev("execute_fn", "cache", "grad", TapeForm(TRUE, FALSE),
                PassesKwargs("cache"),
                               f.n, f.md)>>]

\* _vjp_legacy._get_jac_with_caching of the closure of frame v: per tape, one gradient_fn
\* call and one execute_fn call on that tape's gradient tapes
GetJacWithCachingLegacy(v) ==
    LET inv == frames[v].cl
        f == frames[v]
        jacs == JacsOf(Len(f.tapes), f.shots, "cache", v, inv.fills + 1)
    IN IF CacheHas(v)
       THEN [jacs |-> CacheGet(v), inv |-> inv, trace |-> <<CacheCall(f)>>]
       ELSE [jacs |-> jacs,
             inv |-> [inv EXCEPT !.has = TRUE, !.jac = jacs, !.fills = @ + 1],
             trace |-> <<CacheCall(f)>> \o Flatten([i \in 1..Len(f.tapes) |->
                           <<Ev("gradient_fn", "cache", "primal", TapeForm(FALSE, FALSE), TRUE, f.n, f.md),
                             Ev("execute_fn", "cache", "grad", TapeForm(TRUE, FALSE),
                PassesKwargs("cache"),
                                f.n, f.md)>>])]

\* computing_jacobian = _n == max_diff
ComputingJacobian(f) == f.n = f.md

\* gradient_fn and gradient_fn.__name__ == "param_shift" and computing_jacobian
UsesCache(f) == IsParamShift(f.gfn) /\ ComputingJacobian(f)

\* the test one level early
AtMaxDiffEarly(f) == f.n + 1 = f.md

\* if _n == max_diff, at_max_diff = _n == max_diff: the gradient tapes of a
\* gradient transform go to execute_fn, not to execute
AtMaxDiff(f) == f.n = f.md

\* the branch of grad_fn that runs the gradient tapes of a gradient
\* transform, for the closure of frame fi; sub is the nested execute call
TransformBranch(fi, inv1, tr1, dy, sub) ==
    LET f == frames[fi]
    IN IF AtMaxDiff(f)
       THEN Outcome(inv1,
                    tr1 \o <<Ev("execute_fn", "direct", "grad", TapeForm(TRUE, TRUE),
                PassesKwargs("direct"),
                                f.n, f.md)>>,
                    BatchProduct("batch_vjp", f.tapes, dy), "none", <<>>, <<>>)
       ELSE Outcome(inv1,
                    tr1 \o <<Ev("execute", "reentry", "grad", TapeForm(FALSE, TRUE), TRUE,
                                NextDepth(f), f.md)>> \o sub.trace,
                    IF sub.err = "none"
                    THEN BatchProduct("batch_vjp", f.tapes, dy) ELSE <<>>,
                    sub.err, sub.frame, <<>>)

\* vjp.grad_fn of the closure of frame v, called with cotangent dy; act is
\* qml.active_return() at the time of the call
VjpGradFn(v, dy, act) ==
    LET fi == v
        f == frames[fi]
        multi_measurements == [i \in 1..Len(f.tapes) |-> f.tapes[i].nmeas > 1]
        has_partitioned_shots == f.shots > 0
        c == GetJacWithCaching(v)
        jacs == IF UsesCache(f) THEN c.jacs ELSE f.jacs
        inv1 == IF UsesCache(f) THEN c.inv ELSE f.cl
        tr1 == IF UsesCache(f) THEN c.trace ELSE <<>>
    IN IF Len(jacs) > 0
       THEN LET r == ComputeVjpsAutograd(jacs, dy, multi_measurements,
                                         has_partitioned_shots)
            IN Outcome(inv1, tr1, r.val, r.err, <<>>, jacs)
       ELSE IF IsTransform(f.gfn)
       THEN TransformBranch(fi, inv1, tr1, dy, AgExecute(Nested(fi), act))
       ELSE IF f.gfn.kind = "none"
       THEN Outcome(inv1, tr1, <<>>, "TypeError", <<>>, <<>>)
       ELSE LET rjacs == JacsOf(Len(f.tapes), f.shots, "rule", v, 0)
                r == ComputeVjpsAutograd(rjacs, dy, multi_measurements,
                                         has_partitioned_shots)
            IN Outcome(inv1,
                       tr1 \o <<Ev("gradient_fn", "terminal", "primal", TapeForm(TRUE, FALSE),
                                   TRUE, f.n, f.md)>>,
                       r.val, r.err, <<>>, rjacs)

\* _vjp_legacy.grad_fn of the closure of frame v: the nested call is _execute_legacy
VjpLegacyGradFn(v, dy) ==
    LET fi == v
        f == frames[fi]
        c == GetJacWithCachingLegacy(v)
        jacs == IF UsesCache(f) THEN c.jacs ELSE f.jacs
        inv1 == IF UsesCache(f) THEN c.inv ELSE f.cl
        tr1 == IF UsesCache(f) THEN c.trace ELSE <<>>
    IN IF Len(jacs) > 0
       THEN Outcome(inv1, tr1, ZipVjps(dy, jacs), "none", <<>>, jacs)
       ELSE IF IsTransform(f.gfn)
       THEN TransformBranch(fi, inv1, tr1, dy, AgExecuteLegacy(Nested(fi)))
       ELSE IF f.gfn.kind = "none"
       THEN Outcome(inv1, tr1, <<>>, "TypeError", <<>>, <<>>)
       ELSE Outcome(inv1,
                    tr1 \o <<Ev("gradient_fn", "terminal", "primal", TapeForm(TRUE, FALSE),
                                TRUE, f.n, f.md)>>,
                    ZipVjps(dy, JacsOf(Len(f.tapes), f.shots, "rule", v, 0)),
                    "none", <<>>, JacsOf(Len(f.tapes), f.shots, "rule", v, 0))

\* ----------------------------------------------------------- JAX: forward
\* jnp.array of the items of one part; a count dictionary stays as it is
ToJnp(items) == [m \in 1..Len(items) |-> IF items[m] = "dict" THEN "dict" ELSE "jnp"]

\* the results of the batch in reverse order
ToJaxReversed(res) ==
    [i \in 1..Len(res) |-> [res[Len(res) + 1 - i] EXCEPT !.parts[1] = ToJnp(@)]]

\* _to_jax: every result of the batch, in order
ToJax(res) ==
    [i \in 1..Len(res) |-> [res[i] EXCEPT !.parts[1] = ToJnp(@)]]

\* _to_jax_shot_vector: _to_jax of every shot partition of every result
ToJaxShotVector(res) ==
    [i \in 1..Len(res) |->
        [res[i] EXCEPT !.parts =
            [p \in 1..Len(@) |->
                ToJax(<<[res[i] EXCEPT !.parts = <<res[i].parts[p]>>]>>)[1].parts[1]]]]

\* the trainable parameters set at every depth
JaxAlwaysSetsTrainable(n) == TRUE

\* if _n == 1: the trainable parameters are set
JaxSetsTrainable(n) == n = 1

JaxTapes(a) == IF JaxSetsTrainable(a.n) THEN SetTrainableParams(a.tapes) ELSE a.tapes

\* the two paths exchanged
JaxPathSwapped(gfn) == IF gfn.kind = "none" THEN "bwd" ELSE "fwd"

\* if gradient_fn is None: the forward path, else the backward path
JaxPath(gfn) == IF gfn.kind = "none" THEN "fwd" ELSE "bwd"

\* the call execute_wrapper / wrapped_exec makes
ForwardCall(a) == Ev("execute_fn", "forward", "primal", TapeForm(TRUE, FALSE),
                PassesKwargs("forward"), a.n, a.md)

\* _execute_fwd: res, _jacs = execute_wrapper(params); return res
JaxExecuteFwd(a, ts) ==
    LET out == ExecuteFn(Unwrapped(ts), a.shots, a.fwdJ)
    IN Done(MkFrame("jax", FALSE, "fwd", a, ts, ToJax(out.res), "batch", <<>>),
            <<ForwardCall(a)>>)

\* _execute_bwd: execute_wrapper keeps the results only
JaxExecuteBwd(a, ts) ==
    LET out == ExecuteFn(Unwrapped(ts), a.shots, a.fwdJ)
        has_partitioned_shots == a.shots > 0
    IN Done(MkFrame("jax", FALSE, "bwd", a, ts,
                    IF has_partitioned_shots
                    THEN ToJaxShotVector(out.res) ELSE ToJax(out.res),
                    "batch", <<>>),
            <<ForwardCall(a)>>)

\* execute of the JAX interface
JaxExecute(a) ==
    LET ts == JaxTapes(a)
    IN IF JaxPath(a.gfn) = "fwd" THEN JaxExecuteFwd(a, ts) ELSE JaxExecuteBwd(a, ts)

\* jnp.array(r) of every result, whatever it holds
JnpArrayAll(res) ==
    [i \in 1..Len(res) |->
        [res[i] EXCEPT !.parts =
            [p \in 1..Len(@) |-> [m \in 1..Len(@[p]) |-> "jnp"]]]]

\* jnp.array cannot make an array of a dictionary
HoldsDict(res) ==
    \E i \in 1..Len(res) :
        \E p \in 1..Len(res[i].parts) :
            \E m \in 1..Len(res[i].parts[p]) : res[i].parts[p][m] = "dict"

\* array_if_not_counts(tape, r) of every result: r as it is when the tape has
\* a CountsMP, else jnp.array(r)
ArrayIfNotCounts(tapes, res) ==
    [i \in 1..Len(res) |->
        IF HasCounts(tapes[i]) THEN res[i] ELSE JnpArrayAll(<<res[i]>>)[1]]

\* _execute_fwd_legacy: wrapped_exec applies jnp.array to every result and
\* returns (res, jacs); the caller gets res alone only when no result is a
\* JVPTracer (tracing)
JaxExecuteFwdLegacy(a, ts, tracing) ==
    LET out == ExecuteFn(Unwrapped(ts), a.shots, a.fwdJ)
    IN IF HoldsDict(out.res)
       THEN Raised("TypeError: jnp.array of a dictionary", <<ForwardCall(a)>>, ts)
       ELSE Done(MkFrame("jax", TRUE, "fwd", a, ts, JnpArrayAll(out.res),
                         IF tracing THEN "pair" ELSE "batch", out.jacs),
                 <<ForwardCall(a)>>)

\* _execute_legacy of the JAX interface: wrapped_exec reads tapes[0] when the
\* batch does not hold more than one tape
JaxExecuteBwdLegacy(a, ts) ==
    LET out == ExecuteFn(Unwrapped(ts), a.shots, a.fwdJ)
    IN IF Len(ts) = 0
       THEN Raised("IndexError", <<ForwardCall(a)>>, ts)
       ELSE Done(MkFrame("jax", TRUE, "bwd", a, ts, ArrayIfNotCounts(ts, out.res),
                         "batch", <<>>),
                 <<ForwardCall(a)>>)

\* a validation that accepts every batch
ValidateNothing(tapes) == TRUE

\* _validate_tapes, lines 149-160: no tape may hold a sample or probability
\* measurement together with a measurement of another type
ValidateTapes(tapes) ==
    \A i \in 1..Len(tapes) :
        ~("probs" \in Range(tapes[i].meas) /\ Cardinality(Range(tapes[i].meas)) > 1)

\* a test of max_diff that lets every order pass
AnyOrder(max_diff) == FALSE

\* line 106: if max_diff > 1
HigherOrder(max_diff) == max_diff > 1

\* execute_legacy of the JAX interface
JaxExecuteLegacy(a, tracing) ==
    IF HigherOrder(a.md)
    THEN Raised("InterfaceUnsupportedError: first order only", <<>>, a.tapes)
    ELSE IF ~ValidateTapes(a.tapes)
    THEN Raised("InterfaceUnsupportedError: mixed measurements", <<>>, a.tapes)
    ELSE LET ts == JaxTapes(a)
         IN IF JaxPath(a.gfn) = "fwd"
            THEN JaxExecuteFwdLegacy(a, ts, tracing)
            ELSE JaxExecuteBwdLegacy(a, ts)

\* ------------------------------------------------------- JAX: derivatives
\* _compute_jvps: jvps[i] from tangents[i] and jacs[i]
ComputeJvps(jacs, tangents, multi_measurements) ==
    IF Len(tangents) < Len(multi_measurements) \/ Len(jacs) < Len(multi_measurements)
    THEN [err |-> "IndexError", val |-> <<>>]
    ELSE [err |-> "none",
          val |-> [i \in 1..Len(multi_measurements) |->
                      <<Contract(IF multi_measurements[i] THEN "jvp_multi"
                                                         ELSE "jvp_single",
                                 Whole(tangents[i]), Whole(jacs[i]))>>]]

\* _execute_bwd.execute_wrapper_jvp of frame fi
JaxBwdJvp(fi, tangents) ==
    LET f == frames[fi]
        fwd == Ev("execute_fn", "forward", "primal", TapeForm(TRUE, FALSE),
                PassesKwargs("forward"), f.n, f.md)
        multi_measurements == [i \in 1..Len(f.tapes) |-> f.tapes[i].nmeas > 1]
        sub == JaxExecute(Nested(fi))
        r == ComputeJvps(JacsOf(Len(f.tapes), f.shots, "rule", 0, 0), tangents,
                         multi_measurements)
    IN IF IsTransform(f.gfn)
       THEN IF AtMaxDiff(f)
            THEN Outcome(0,
                         <<Ev("execute_fn", "direct", "grad", TapeForm(AtMaxDiff(f), TRUE),
                PassesKwargs("direct"),
                              f.n, f.md), fwd>>,
                         BatchProduct("batch_jvp", f.tapes, tangents), "none", <<>>,
                         <<>>)
            ELSE Outcome(0,
                         <<Ev("execute", "reentry", "grad", TapeForm(AtMaxDiff(f), TRUE), TRUE,
                              NextDepth(f), f.md)>> \o sub.trace \o <<fwd>>,
                         BatchProduct("batch_jvp", f.tapes, tangents), "none",
                         sub.frame, <<>>)
       ELSE Outcome(0,
                    <<fwd, Ev("gradient_fn", "terminal", "primal", TapeForm(TRUE, FALSE), TRUE,
                              f.n, f.md)>>,
                    r.val, r.err, <<>>, JacsOf(Len(f.tapes), f.shots, "rule", 0, 0))

\* _execute_fwd.execute_wrapper_jvp of frame fi: the Jacobian is the one
\* execute_wrapper returns with the results
JaxFwdJvp(fi, tangents) ==
    LET f == frames[fi]
        out == ExecuteFn(Unwrapped(f.tapes), f.shots, f.fwdJ)
        multi_measurements == [i \in 1..Len(f.tapes) |-> f.tapes[i].nmeas > 1]
        r == ComputeJvps(out.jacs, tangents, multi_measurements)
    IN Outcome(0,
               <<Ev("execute_fn", "forward", "primal", TapeForm(TRUE, FALSE),
                PassesKwargs("forward"), f.n, f.md)>>,
               r.val, r.err, <<>>, out.jacs)

\* lines 223-226: the tape has a probability measurement and more than one
\* measurement
MultiProbs(t) == "probs" \in Range(t.meas) /\ t.nmeas > 1

\* a decision taken when any tape of the batch has several probabilities
AnyMultiProbs(tapes) == \E i \in 1..Len(tapes) : MultiProbs(tapes[i])

\* for t in tapes: multi_probs = ...: after the loop multi_probs is the value
\* of the last tape (the batch is not empty: wrapped_exec read tapes[0])
LoopMultiProbs(tapes) == MultiProbs(tapes[Len(tapes)])

\* r.ndim of the results of the gradient tapes of tape t: the legacy backend
\* returns a vector of expectation values and a matrix of probabilities
Ndim(t) == IF "probs" \in Range(t.meas) THEN 2 ELSE 1

\* partial_res = execute_fn(vjp_tapes)[0], as one entry for the results of
\* the gradient tapes of each tape
PartialRes(tapes) ==
    [i \in 1..Len(tapes) |->
        [tape |-> i, part |-> 0, ndim |-> Ndim(tapes[i]), swapped |-> FALSE]]

\* lines 228-237: if multi_probs, r.swapaxes(0, 1) of every r with
\* r.ndim > 1
SwapAxes(partial_res, multi_probs) ==
    [k \in 1..Len(partial_res) |->
        IF multi_probs /\ partial_res[k].ndim > 1
        THEN [partial_res[k] EXCEPT !.swapped = TRUE]
        ELSE partial_res[k]]

\* processing_fn(partial_res): one product per tape, in tape order
ProcessingFn(rule, partial_res, dy) ==
    [i \in 1..Len(partial_res) |-> <<Contract(rule, Whole(dy[i]), partial_res[i])>>]

\* _execute_legacy.wrapped_exec_bwd of frame fi
JaxLegacyBwd(fi, g) ==
    LET f == frames[fi]
    IN IF IsTransform(f.gfn)
       THEN Outcome(0,
                    <<Ev("execute_fn", "direct", "grad", TapeForm(TRUE, TRUE),
                PassesKwargs("direct"), f.n, f.md)>>,
                    ProcessingFn("batch_vjp",
                                 SwapAxes(PartialRes(f.tapes), LoopMultiProbs(f.tapes)),
                                 g),
                    "none", <<>>, <<>>)
       ELSE Outcome(0,
                    <<Ev("gradient_fn", "terminal", "primal", TapeForm(TRUE, FALSE), TRUE,
                         f.n, f.md)>>,
                    ZipVjps(g, JacsOf(Len(f.tapes), f.shots, "rule", 0, 0)),
                    "none", <<>>, JacsOf(Len(f.tapes), f.shots, "rule", 0, 0))

\* every tape taken to have one output component
OutputDimOne(t) == 1

\* t.output_dim: one component per expectation value, two per probability
\* measurement (of one wire)
OutputDim(t) == t.nmeas + Cardinality({m \in 1..t.nmeas : t.meas[m] = "probs"})

\* _execute_fwd_legacy.wrapped_exec_bwd of frame fi: _raise_vector_valued_fwd,
\* then one entry per Jacobian saved on the forward pass; the cotangent g is
\* not read (operand d of no tape)
JaxFwdLegacyBwd(fi) ==
    LET f == frames[fi]
        scalar_outputs == \A i \in 1..Len(f.tapes) : OutputDim(f.tapes[i]) = 1
    IN IF ~scalar_outputs
       THEN Outcome(0, <<>>, <<>>,
                    "InterfaceUnsupportedError: vector-valued forward mode",
                    <<>>, <<>>)
       ELSE Outcome(0, <<>>,
                    [k \in 1..Len(f.jacs) |->
                        <<Contract("forward_jacobian", [tape |-> 0, part |-> 0],
                                   Whole(f.jacs[k]))>>],
                    "none", <<>>, f.jacs)

\* ------------------------------------------------------ backend failure
\* Neither file has a try statement: when a call of execute_fn raises, the
\* handler making it ends there and the exception reaches its caller.

ExecCount(trace) == Cardinality({k \in 1..Len(trace) : trace[k].fn = "execute_fn"})

\* the position in the trace of the k-th call of execute_fn
ExecPos(trace, k) ==
    CHOOSE p \in 1..Len(trace) :
        /\ trace[p].fn = "execute_fn"
        /\ Cardinality({q \in 1..p : trace[q].fn = "execute_fn"}) = k

\* a handler that calls execute_fn once more after the call that raised
AbortAndRetry(trace, p) == SubSeq(trace, 1, p) \o <<trace[p]>>

\* the calls a handler has made when its call at position p raises
Abort(trace, p) == SubSeq(trace, 1, p)

\* execute when its k-th call of execute_fn raises (k = 0: none does); r is
\* what it does when none raises.  trainable_params are set before the call.
FailExecute(r, k) ==
    IF k = 0
    THEN r
    ELSE Raised("BackendError", Abort(r.trace, ExecPos(r.trace, k)), r.left)

\* a derivative rule when its k-th call of execute_fn raises; r is what it
\* does when none raises, cl the closure before the call.  The cache is
\* filled after the calls of _get_jac_with_caching returned.
FailRule(r, k, cl) ==
    IF k = 0
    THEN r
    ELSE Outcome(IF r.trace[ExecPos(r.trace, k)].site = "cache" THEN cl ELSE r.inv,
                 Abort(r.trace, ExecPos(r.trace, k)), <<>>, "BackendError",
                 <<>>, <<>>)

\* ------------------------------------------------------ the state machine
\* what the latest call did: op names the function called, frame the frame
\* it belongs to, hi whether the host called it while tracing it for a
\* derivative of higher order (its cotangent is a tracer), trace the calls it
\* made in order, err the error it raised, and the value it returned: res
\* (execute) or vjps (a derivative rule, from the Jacobians jacs); for execute
\* also its arguments (args), the tapes the caller passed (given) and as the
\* call left them (left); fail tells which of its execute_fn calls raised
\* (0: none), dy the shape of the cotangent a rule was handed
Call(op, frame, hi, trace, err, res, shape, vjps, jacs, args, left, fail, dy) ==
    [op |-> op, frame |-> frame, hi |-> hi, trace |-> trace,
     err |-> err, res |-> res, shape |-> shape, vjps |-> vjps, jacs |-> jacs,
     args |-> args, given |-> args.tapes, left |-> left, fail |-> fail,
     dy |-> dy]

NoArgs == Args(<<>>, [kind |-> "none", ps |-> FALSE], 0, 0, 0, FALSE, 0)

NoCall ==
    Call("none", 0, FALSE, <<>>, "none", <<>>, "batch", <<>>, <<>>, NoArgs, <<>>, 0, "ok")

\* the call of execute that returned r, as the latest call
ExecuteCall(op, a, r, k) ==
    IF r.err = "none"
    THEN Call(op, Len(frames) + 1, FALSE, r.trace, "none", r.frame[1].res,
              r.frame[1].shape, <<>>, <<>>, a, r.left, k, "ok")
    ELSE Call(op, 0, FALSE, r.trace, r.err, <<>>, "batch", <<>>, <<>>, a, r.left, k,
              "ok")

\* the call of a derivative rule of frame fi with outcome r, as the latest call
RuleCall(op, fi, hi, r, k, dy) ==
    Call(op, fi, hi, r.trace, r.err, <<>>, "batch", r.vjps, r.jacs, NoArgs, <<>>, k,
         dy)

OuterArgs ==
    {Args(tapes, gfn, n, md, shots, fwdJ, 0) :
        tapes \in Batches, gfn \in GradRules, n \in 1..MaxDiff, md \in 0..MaxDiff,
        shots \in {0, NShots}, fwdJ \in BOOLEAN}

\* execute_legacy of the JAX interface is also given the batches of
\* probability measurements, which its backward rule treats apart
LegacyArgs ==
    OuterArgs \cup
    {Args(tapes, gfn, n, md, shots, fwdJ, 0) :
        tapes \in ProbsBatches, gfn \in GradRules, n \in 1..MaxDiff,
        md \in 0..MaxDiff, shots \in {0, NShots}, fwdJ \in BOOLEAN}

Init ==
    /\ active \in BOOLEAN
    /\ frames = <<>>
    /\ last = NoCall

\* qml.enable_return() / qml.disable_return()
SetActiveReturn ==
    /\ active' = ~active
    /\ UNCHANGED <<frames, last>>

\* A behaviour follows one outermost call and the derivatives taken of it.  A
\* call made after one that raised starts from the state Init starts from.

\* the outermost call of execute of the autograd interface
CallAutogradExecute ==
    /\ frames = <<>> /\ last = NoCall
    /\ \E a \in OuterArgs :
        \E k \in 0..ExecCount(AgExecute(a, active).trace) :
            LET r == FailExecute(AgExecute(a, active), k)
            IN /\ frames' = frames \o r.frame
               /\ last' = ExecuteCall("execute", a, r, k)
    /\ UNCHANGED active

\* the outermost call of execute of the JAX interface
CallJaxExecute ==
    /\ frames = <<>> /\ last = NoCall
    /\ \E a \in OuterArgs :
        \E k \in 0..ExecCount(JaxExecute(a).trace) :
            LET r == FailExecute(JaxExecute(a), k)
            IN /\ frames' = frames \o r.frame
               /\ last' = ExecuteCall("execute", a, r, k)
    /\ UNCHANGED active

\* the outermost call of execute_legacy of the JAX interface
CallJaxExecuteLegacy ==
    /\ frames = <<>> /\ last = NoCall
    /\ \E a \in LegacyArgs, tracing \in BOOLEAN :
        \E k \in 0..ExecCount(JaxExecuteLegacy(a, tracing).trace) :
            LET r == FailExecute(JaxExecuteLegacy(a, tracing), k)
            IN /\ frames' = frames \o r.frame
               /\ last' = ExecuteCall("execute_legacy", a, r, k)
    /\ UNCHANGED active

\* The cotangent of a call has the structure of the result, or, in a
\* first-order call of a rule that contracts it with Jacobians in this code,
\* one of the other shapes (qml.gradients.batch_vjp, which contracts it for a
\* gradient transform, is not this code's).
DyGiven(f, hi, shape) ==
    /\ DyShapeFits(Len(f.tapes), f.shots, shape)
    /\ shape # "ok" =>
          /\ ~hi
          /\ Len(f.jacs) > 0 \/ UsesCache(f) \/ ~IsTransform(f.gfn)

\* the effect of a grad_fn call of the closure of frame v: r0 is its outcome
\* when no call of execute_fn raises, k the call that raises
GradFnStep(op, v, hi, r0, dy) ==
    \E k \in 0..ExecCount(r0.trace) :
        LET r == FailRule(r0, k, frames[v].cl)
        IN /\ frames[v].cl.calls < MaxCalls
           /\ k > 0 => dy = "ok"
           /\ Len(frames) + Len(r.sub) <= MaxFrames
           /\ frames' = [frames EXCEPT ![v].cl =
                            IF k = 0
                            THEN [r.inv EXCEPT !.calls = @ + 1,
                                               !.execs = @ + ExecCount(r.trace)]
                            ELSE r.inv,
                                        ![v].tapes = CallerTapes(@, Unwrapped(@))]
                         \o r.sub
           /\ last' = RuleCall(op, v, hi, r, k, dy)
           /\ UNCHANGED active

\* autograd calls the grad_fn of a closure of vjp
CallGradFn ==
    \E v \in 1..Len(frames), hi \in BOOLEAN, shape \in DyShapes :
        /\ frames[v].iface = "autograd" /\ ~frames[v].legacy
        /\ DyGiven(frames[v], hi, shape)
        /\ GradFnStep("vjp.grad_fn", v, hi,
                      VjpGradFn(v, DyShaped(Len(frames[v].tapes), frames[v].shots,
                                            shape),
                                active),
                      shape)

\* autograd calls the grad_fn of a closure of _vjp_legacy
CallGradFnLegacy ==
    \E v \in 1..Len(frames), hi \in BOOLEAN, shape \in DyShapes :
        /\ frames[v].iface = "autograd" /\ frames[v].legacy
        /\ DyGiven(frames[v], hi, shape)
        /\ GradFnStep("_vjp_legacy.grad_fn", v, hi,
                      VjpLegacyGradFn(v, DyShaped(Len(frames[v].tapes),
                                                  frames[v].shots, shape)),
                      shape)

\* the effect of a derivative rule of the JAX frame fi: r0 is its outcome
\* when no call of execute_fn raises, k the call that raises
JaxRuleStep(op, fi, hi, r0, dy) ==
    \E k \in 0..ExecCount(r0.trace) :
        LET r == FailRule(r0, k, frames[fi].cl)
        IN /\ Len(frames) + Len(r.sub) <= MaxFrames
           /\ k > 0 => dy = "ok"
           /\ frames' = [frames EXCEPT ![fi].tapes = CallerTapes(@, Unwrapped(@))]
                         \o r.sub
           /\ last' = RuleCall(op, fi, hi, r, k, dy)
           /\ UNCHANGED active

\* JAX calls execute_wrapper_jvp of _execute_bwd
CallJaxBwdJvp ==
    \E fi \in 1..Len(frames), hi \in BOOLEAN :
        /\ frames[fi].iface = "jax" /\ ~frames[fi].legacy /\ frames[fi].path = "bwd"
        /\ JaxRuleStep("_execute_bwd.jvp", fi, hi,
                       JaxBwdJvp(fi, DyFor(Len(frames[fi].tapes), frames[fi].shots)),
                       "ok")

\* JAX calls execute_wrapper_jvp of _execute_fwd
CallJaxFwdJvp ==
    \E fi \in 1..Len(frames), hi \in BOOLEAN :
        /\ frames[fi].iface = "jax" /\ ~frames[fi].legacy /\ frames[fi].path = "fwd"
        /\ JaxRuleStep("_execute_fwd.jvp", fi, hi,
                       JaxFwdJvp(fi, DyFor(Len(frames[fi].tapes), frames[fi].shots)),
                       "ok")

\* JAX calls wrapped_exec_bwd of _execute_legacy
CallJaxLegacyBwd ==
    \E fi \in 1..Len(frames), hi \in BOOLEAN, shape \in DyShapes :
        /\ frames[fi].iface = "jax" /\ frames[fi].legacy /\ frames[fi].path = "bwd"
        /\ DyGiven(frames[fi], hi, shape) /\ (shape # "ok" => ~IsTransform(frames[fi].gfn))
        /\ JaxRuleStep("_execute_legacy.bwd", fi, hi,
                       JaxLegacyBwd(fi, DyShaped(Len(frames[fi].tapes),
                                                 frames[fi].shots, shape)),
                       shape)

\* JAX calls wrapped_exec_bwd of _execute_fwd_legacy
CallJaxFwdLegacyBwd ==
    \E fi \in 1..Len(frames), hi \in BOOLEAN :
        /\ frames[fi].iface = "jax" /\ frames[fi].legacy /\ frames[fi].path = "fwd"
        /\ JaxRuleStep("_execute_fwd_legacy.bwd", fi, hi, JaxFwdLegacyBwd(fi), "ok")

Next ==
    \/ SetActiveReturn
    \/ CallAutogradExecute
    \/ CallJaxExecute
    \/ CallJaxExecuteLegacy
    \/ CallGradFn
    \/ CallGradFnLegacy
    \/ CallJaxBwdJvp
    \/ CallJaxFwdJvp
    \/ CallJaxLegacyBwd
    \/ CallJaxFwdLegacyBwd

Spec == Init /\ [][Next]_vars

\* ------------------------------------------------------------ properties
\* the positions in the trace of the latest call of the calls of fn, and of
\* the calls that pass gradient tapes
CallsOf(fn) == {k \in 1..Len(last.trace) : last.trace[k].fn = fn}

GradCalls == {k \in 1..Len(last.trace) : last.trace[k].batch = "grad"}

CacheCalls == {k \in 1..Len(last.trace) : last.trace[k].site = "cache"}

GradFnOps == {"vjp.grad_fn", "_vjp_legacy.grad_fn"}

TransformOps == GradFnOps \cup {"_execute_bwd.jvp"}

\* the rules that contract a cotangent (tangent) with Jacobians or gradient
\* tape results; wrapped_exec_bwd of _execute_fwd_legacy does not read its
\* cotangent
ContractingOps == TransformOps \cup {"_execute_fwd.jvp", "_execute_legacy.bwd"}

RuleOps == ContractingOps \cup {"_execute_fwd_legacy.bwd"}

\* C1: with a gradient transform, grad_fn and execute_wrapper_jvp at
\* _n = max_diff run the gradient tapes by a direct call of execute_fn and
\* do not re-enter execute; at _n < max_diff they run them by re-entering
\* execute with depth _n + 1 and the same max_diff, and do not pass them to
\* execute_fn themselves.  Every nested frame was made that way.  (A call
\* the backend fails ends at the failing call.)
TransformRule ==
    /\ \A fi \in 1..Len(frames) :
          frames[fi].parent > 0 =>
              LET p == frames[frames[fi].parent]
              IN /\ IsTransform(p.gfn) /\ p.n # p.md
                 /\ frames[fi].n = p.n + 1 /\ frames[fi].md = p.md
    /\ (last.op \in TransformOps /\ IsTransform(frames[last.frame].gfn)) =>
          LET f == frames[last.frame]
          IN /\ f.n = f.md =>
                  /\ CallsOf("execute") = {}
                  /\ \A k \in GradCalls :
                        last.trace[k].fn = "execute_fn" /\ last.trace[k].n = f.n
                  /\ (Len(last.jacs) = 0 /\ last.fail = 0) =>
                        \E k \in GradCalls : last.trace[k].site = "direct"
             /\ f.n < f.md =>
                  /\ \A k \in GradCalls :
                        /\ last.trace[k].fn = "execute"
                        /\ last.trace[k].n = f.n + 1
                        /\ last.trace[k].md = f.md
                  /\ (Len(last.jacs) = 0 /\ last.err = "none") =>
                        /\ Cardinality(CallsOf("execute")) = 1
                        /\ frames[Len(frames)].parent = last.frame
                        /\ frames[Len(frames)].n = f.n + 1
                        /\ frames[Len(frames)].md = f.md

\* a frame made by a re-entry whose own rule, at _n = max_diff, ran its
\* gradient tapes on execute_fn
TransformRuleWitness ==
    /\ last.op \in TransformOps /\ last.err = "none"
    /\ IsTransform(frames[last.frame].gfn)
    /\ frames[last.frame].parent > 0
    /\ frames[last.frame].n = frames[last.frame].md
    /\ \E k \in GradCalls : last.trace[k].site = "direct"

\* C2: every re-entry into execute made by a derivative rule carries a
\* depth with 1 <= _n <= max_diff, whatever _n and max_diff the outermost
\* caller passed.
NestingBounded ==
    \A fi \in 1..Len(frames) :
        frames[fi].parent > 0 =>
            (1 <= frames[fi].n /\ frames[fi].n <= frames[fi].md)

JaxRouting ==
    /\ \A fi \in 1..Len(frames) :
          frames[fi].iface = "jax" =>
              /\ (frames[fi].path = "fwd") = (frames[fi].gfn.kind = "none")
              /\ frames[fi].path = "bwd" => frames[fi].jacs = <<>>
              /\ frames[fi].parent > 0 => frames[frames[fi].parent].path = "bwd"
    /\ last.op \in {"_execute_fwd.jvp", "_execute_fwd_legacy.bwd"} =>
          /\ frames[last.frame].gfn.kind = "none"
          /\ CallsOf("gradient_fn") = {} /\ CallsOf("execute") = {}
          /\ GradCalls = {}
          /\ \A i \in 1..Len(last.jacs) : last.jacs[i].src = "backend"
    /\ last.op \in {"_execute_bwd.jvp", "_execute_legacy.bwd"} =>
          /\ frames[last.frame].gfn.kind # "none"
          /\ \A i \in 1..Len(last.jacs) : last.jacs[i].src = "rule"

\* the rule of _execute_fwd contracted the Jacobians of the backend
JaxRoutingWitness ==
    /\ last.op = "_execute_fwd.jvp" /\ last.err = "none"
    /\ frames[last.frame].fwdJ
    /\ Len(last.jacs) >= 2
    /\ Len(last.vjps) = Len(last.jacs)

\* C8, as stated: with a terminal gradient rule the derivative rule does not
\* re-enter execute and calls the gradient rule once.
TerminalCallsRuleOnce ==
    (last.op \in RuleOps /\ frames[last.frame].gfn.kind = "terminal"
     /\ last.fail = 0) =>
        /\ CallsOf("execute") = {}
        /\ Cardinality(CallsOf("gradient_fn")) = 1

\* C8, amended: with a terminal gradient rule the derivative rule never
\* re-enters execute and runs no gradient tapes, at every _n and max_diff.
\* It calls the gradient rule once on the batch and contracts the Jacobians
\* the rule returned, except the autograd grad_fn whose forward pass returned
\* a non-empty Jacobian: that one does not call the rule and contracts the
\* Jacobians of the forward pass.  (A call the backend fails contracts
\* nothing.)
TerminalNeverReenters ==
    /\ \A fi \in 1..Len(frames) :
          frames[fi].parent > 0 => frames[frames[fi].parent].gfn.kind # "terminal"
    /\ (last.op \in RuleOps /\ frames[last.frame].gfn.kind = "terminal"
          /\ last.fail = 0) =>
          LET f == frames[last.frame]
              forward == last.op \in GradFnOps /\ Len(f.jacs) > 0
          IN /\ CallsOf("execute") = {}
             /\ GradCalls = {}
             /\ Cardinality(CallsOf("gradient_fn")) = IF forward THEN 0 ELSE 1
             /\ \A k \in CallsOf("gradient_fn") :
                   last.trace[k].site = "terminal" /\ last.trace[k].batch = "primal"
             /\ Len(last.jacs) = Len(f.tapes)
             /\ \A i \in 1..Len(last.jacs) :
                   last.jacs[i].src = IF forward THEN "backend" ELSE "rule"

\* a terminal rule called once on a batch of two tapes at a depth below
\* max_diff, where a gradient transform would have re-entered execute
TerminalNeverReentersWitness ==
    /\ last.op \in RuleOps /\ last.err = "none"
    /\ frames[last.frame].gfn.kind = "terminal"
    /\ frames[last.frame].n < frames[last.frame].md
    /\ Len(frames[last.frame].tapes) >= 2
    /\ Cardinality(CallsOf("gradient_fn")) = 1
    /\ Len(last.vjps) = Len(frames[last.frame].tapes)

\* C9: with a terminal gradient rule, a grad_fn call made for a derivative
\* of order two or higher raises an error; it returns no value.
TerminalHigherOrderRaises ==
    (last.op \in GradFnOps /\ frames[last.frame].gfn.kind = "terminal" /\ last.hi) =>
        last.err # "none"

PartitionAdditive ==
    (last.op = "vjp.grad_fn" /\ last.err = "none" /\ Len(last.jacs) > 0
     /\ last.dy = "ok") =>
        LET f == frames[last.frame]
            rule(i) == IF f.tapes[i].nmeas > 1 THEN "multi" ELSE "single"
            term(i, k) ==
                [rule |-> rule(i), d |-> [tape |-> i, part |-> k],
                 j |-> [tape |-> i, part |-> k]]
        IN /\ Len(last.vjps) = Len(f.tapes)
           /\ \A i \in 1..Len(f.tapes) :
                 last.vjps[i] = IF f.shots > 0
                                THEN [k \in 1..f.shots |-> term(i, k)]
                                ELSE <<term(i, 0)>>

\* a terminal rule's Jacobians contracted partition by partition: tape 1
\* by the single-measurement rule, tape 2 by the multi-measurement rule
PartitionAdditiveWitness ==
    /\ last.op = "vjp.grad_fn" /\ last.err = "none"
    /\ frames[last.frame].gfn.kind = "terminal"
    /\ frames[last.frame].shots >= 2
    /\ Len(last.vjps) >= 2
    /\ Len(last.vjps[1]) = frames[last.frame].shots
    /\ last.vjps[1][1].rule = "single"
    /\ last.vjps[2][2].rule = "multi"

\* C13: every call of execute_fn, on the forward path, in the Jacobian cache
\* and in every branch of a derivative rule, at the depth of the rule and in
\* the execute calls nested in it, passes tapes whose parameters were
\* converted to numbers, or gradient tapes made from such tapes.
BackendGetsNumbers ==
    \A k \in CallsOf("execute_fn") : last.trace[k].conv \in {"converted", "derived"}

\* a rule passed its gradient tapes unconverted to execute, whose forward
\* call converted them before the backend ran them
BackendGetsNumbersWitness ==
    /\ last.op \in TransformOps /\ last.err = "none"
    /\ \E k \in CallsOf("execute") : last.trace[k].conv = "raw"
    /\ \E k \in CallsOf("execute_fn") :
          /\ last.trace[k].n = frames[last.frame].n + 1
          /\ last.trace[k].conv = "converted"

\* C14: forward and derivative evaluation put parameters into new tapes
\* only: whatever calls were made, every tape a caller passed has the
\* parameters and measurements it had, and differs from what was passed at
\* most in its trainable_params.
CallerTapesKept ==
    \A fi \in 1..Len(frames) :
        /\ Len(frames[fi].tapes) = Len(frames[fi].given)
        /\ \A i \in 1..Len(frames[fi].tapes) :
              [frames[fi].tapes[i] EXCEPT !.trainable_params =
                  frames[fi].given[i].trainable_params] = frames[fi].given[i]

\* a derivative rule ran gradient tapes made from converted copies of a
\* batch whose parameters are tracers, and the tapes still hold the tracers
CallerTapesKeptWitness ==
    /\ last.op \in RuleOps /\ last.err = "none"
    /\ Len(frames[last.frame].tapes) >= 2
    /\ frames[last.frame].tapes[2].params = AllTrainable(2)
    /\ \E k \in CallsOf("execute_fn") : last.trace[k].conv = "derived"

\* some tape of the batch holds a probability measurement together with a
\* measurement of another type
MixedBatch(tapes) ==
    \E i \in 1..Len(tapes) :
        "probs" \in Range(tapes[i].meas) /\ Cardinality(Range(tapes[i].meas)) > 1

UnsupportedErrors ==
    {"InterfaceUnsupportedError: first order only",
     "InterfaceUnsupportedError: mixed measurements",
     "InterfaceUnsupportedError: vector-valued forward mode"}

\* C15, as stated: the JAX interface never executes a batch in which a tape
\* mixes a sample or probability measurement with another type.
JaxRejectsMixed ==
    \A fi \in 1..Len(frames) :
        frames[fi].iface = "jax" => ~MixedBatch(frames[fi].tapes)

\* C15, amended: execute_legacy of the JAX interface raises
\* InterfaceUnsupportedError for such a batch, before it calls the backend
\* and before it changes any tape's trainable_params, and raises the error of
\* _validate_tapes for no other batch; execute of the JAX interface does not
\* validate and raises no InterfaceUnsupportedError.
LegacyRejectsMixed ==
    /\ (last.op = "execute_legacy" /\ MixedBatch(last.given)) =>
          /\ last.err \in UnsupportedErrors
          /\ last.trace = <<>>
          /\ last.left = last.given
    /\ last.err = "InterfaceUnsupportedError: mixed measurements" =>
          last.op = "execute_legacy" /\ MixedBatch(last.given)
    /\ last.op = "execute" => last.err \notin UnsupportedErrors
    /\ \A fi \in 1..Len(frames) :
          (frames[fi].iface = "jax" /\ frames[fi].legacy) =>
              ~MixedBatch(frames[fi].tapes)

\* execute_legacy rejected a batch of two tapes for its second tape; the
\* first, a probability measurement alone, is valid
LegacyRejectsMixedWitness ==
    /\ last.op = "execute_legacy"
    /\ last.err = "InterfaceUnsupportedError: mixed measurements"
    /\ Len(last.given) >= 2
    /\ last.given[1].meas = <<"probs">>
    /\ ~GetTrainableIndices(last.given[1].params) = last.given[1].trainable_params

\* C23, as stated: every call of execute_fn passes the gradient_kwargs.
KwargsOnEveryCall ==
    \A k \in CallsOf("execute_fn") : last.trace[k].kwargs

\* C23, amended: the calls of execute_fn of the forward evaluation and of the
\* Jacobian cache pass the gradient_kwargs as keyword arguments; the call a
\* derivative rule makes on the gradient tapes of a gradient transform
\* passes the tapes alone.  The gradient rule and every re-entry of execute
\* are given the gradient_kwargs.
KwargsBySite ==
    \A k \in 1..Len(last.trace) :
        LET e == last.trace[k]
        IN /\ e.fn = "execute_fn" =>
                 /\ e.site \in {"forward", "cache", "direct"}
                 /\ e.kwargs = (e.site \in {"forward", "cache"})
                 /\ e.site = "direct" => e.batch = "grad"
           /\ e.fn \in {"gradient_fn", "execute"} => e.kwargs

\* execute_wrapper_jvp of _execute_bwd made both kinds of call: the gradient
\* tapes without the gradient_kwargs, the forward evaluation with them
KwargsBySiteWitness ==
    /\ last.op = "_execute_bwd.jvp" /\ last.err = "none"
    /\ \E k \in CallsOf("execute_fn") :
          last.trace[k].site = "direct" /\ ~last.trace[k].kwargs
    /\ \E k \in CallsOf("execute_fn") :
          last.trace[k].site = "forward" /\ last.trace[k].kwargs

\* C22: every frame made by a re-entry runs in the result mode (legacy or
\* canonical) of the frame whose derivative rule made it, hence of the
\* outermost call, whatever qml.active_return() was when the rule ran.
ReentrySameMode ==
    \A fi \in 1..Len(frames) :
        frames[fi].parent > 0 =>
            frames[fi].legacy = frames[frames[fi].parent].legacy

\* C21: wrapped_exec_bwd of _execute_legacy with a gradient transform decides
\* the swap of axes from the last tape of the batch alone (it has a
\* probability measurement and more than one measurement), and applies that
\* one decision to the gradient-tape results of every tape: those of more
\* than one dimension are swapped when it is taken, none is when it is not.
SwapByLastTape ==
    (last.op = "_execute_legacy.bwd" /\ last.err = "none"
        /\ IsTransform(frames[last.frame].gfn)) =>
        LET f == frames[last.frame]
            t == f.tapes[Len(f.tapes)]
            decided == "probs" \in Range(t.meas) /\ Len(t.meas) > 1
        IN /\ Len(last.vjps) = Len(f.tapes)
           /\ \A i \in 1..Len(f.tapes) :
                 /\ last.vjps[i][1].j.tape = i
                 /\ last.vjps[i][1].j.swapped =
                       (decided /\ "probs" \in Range(f.tapes[i].meas))

\* the last tape has one probability measurement and the first has two: the
\* results of the first were not swapped
SwapByLastTapeWitness ==
    /\ last.op = "_execute_legacy.bwd" /\ last.err = "none"
    /\ IsTransform(frames[last.frame].gfn)
    /\ Len(frames[last.frame].tapes) = 2
    /\ frames[last.frame].tapes[1].meas = <<"probs", "probs">>
    /\ frames[last.frame].tapes[2].meas = <<"probs">>
    /\ ~last.vjps[1][1].j.swapped

\* the Jacobians [[1.0], [[0.3, 0.0], [0.0, 0.4]]] in tenths, and the cotangent
\* [1.0, (1.0, 1.0)] in units
ScenarioJacs == << <<10>>, << <<3, 0>>, <<0, 4>> >> >>

ScenarioDy == << 1, <<1, 1>> >>

\* grad_fn of vjp returned, for a batch of tape A (one trainable parameter,
\* one measurement) and tape B (two and two), without shot partitions, with
\* a terminal gradient rule and no Jacobian from the forward pass
Scenario ==
    /\ last.op = "vjp.grad_fn" /\ last.err = "none" /\ last.dy = "ok"
    /\ LET f == frames[last.frame]
       IN /\ f.gfn.kind = "terminal" /\ f.shots = 0 /\ Len(f.jacs) = 0
          /\ Len(f.tapes) = 2
          /\ \A i \in 1..2 :
                /\ f.tapes[i].trainable_params = 1..i
                /\ f.tapes[i].meas = [m \in 1..i |-> "expval"]

\* C20: in that scenario, with the rule returning the Jacobians
\* [[1.0], [[0.3, 0.0], [0.0, 0.4]]] and the cotangent [1.0, (1.0, 1.0)], grad_fn
\* returns the VJPs [[1.0], [0.3, 0.4]], calls the gradient rule once and
\* execute_fn not at all.
ScenarioVjp ==
    Scenario =>
        /\ VjpValues(last.vjps, ScenarioDy, ScenarioJacs) = << <<10>>, <<3, 4>> >>
        /\ \A i \in 1..2 : last.jacs[i].src = "rule" /\ last.jacs[i].tape = i
        /\ Cardinality(CallsOf("gradient_fn")) = 1
        /\ CallsOf("execute_fn") = {}
        /\ CallsOf("execute") = {}

\* the scenario, at a depth below max_diff
ScenarioVjpWitness ==
    /\ Scenario
    /\ frames[last.frame].n < frames[last.frame].md
    /\ Len(last.vjps) = 2

\* C19: a backward rule handed a cotangent without the structure of the
\* forward result (not one entry per tape, or not one entry per shot
\* partition) raises an error and returns no VJP.
MismatchFails ==
    (last.op \in {"vjp.grad_fn", "_vjp_legacy.grad_fn", "_execute_legacy.bwd"}
        /\ last.dy # "ok") =>
        last.err # "none" /\ last.vjps = <<>>

\* C18: when a call of execute_fn raises, in execute or in a derivative
\* rule, the caller gets that failure and no result, and the failing call is
\* the last call of execute_fn the operation makes; no operation raises a
\* backend failure of its own.
BackendFailurePropagates ==
    /\ last.fail > 0 =>
          /\ last.err = "BackendError"
          /\ ExecCount(last.trace) = last.fail
          /\ last.trace[Len(last.trace)].fn = "execute_fn"
          /\ last.res = <<>> /\ last.vjps = <<>>
    /\ last.err = "BackendError" => last.fail > 0

\* _vjp_legacy.grad_fn filling its cache for two tapes: the call of
\* execute_fn for the first tape raised, none was made for the second
BackendFailurePropagatesWitness ==
    /\ last.op = "_vjp_legacy.grad_fn"
    /\ Len(frames[last.frame].tapes) = 2
    /\ last.fail = 1
    /\ last.err = "BackendError"
    /\ last.trace[Len(last.trace)].site = "cache"
    /\ ~frames[last.frame].cl.has

ForwardRuleOps == {"_execute_fwd_legacy.bwd", "_execute_fwd.jvp"}

\* some tape returns more than one number: several measurements, or a
\* probability measurement
VectorValued(tapes) ==
    \E i \in 1..Len(tapes) :
        tapes[i].nmeas > 1 \/ "probs" \in Range(tapes[i].meas)

\* C16, as stated: on the forward-mode path every derivative rule the backend
\* does not fail raises InterfaceUnsupportedError for a batch with a tape of
\* more than one output component.
ForwardRulesRaiseVector ==
    (last.op \in ForwardRuleOps /\ VectorValued(frames[last.frame].tapes)
     /\ last.fail = 0) =>
        last.err = "InterfaceUnsupportedError: vector-valued forward mode"

\* C16, amended: wrapped_exec_bwd of the legacy forward-mode path raises
\* InterfaceUnsupportedError exactly for a batch with a tape of more than one
\* output component, before anything else, and returns no cotangent then; no
\* other rule raises this error, execute_wrapper_jvp of the forward-mode path
\* of execute included.
FwdLegacyRaisesVector ==
    /\ last.op = "_execute_fwd_legacy.bwd" =>
          /\ last.err = "InterfaceUnsupportedError: vector-valued forward mode"
                <=> VectorValued(frames[last.frame].tapes)
          /\ last.err # "none" => last.vjps = <<>> /\ last.trace = <<>>
    /\ last.err = "InterfaceUnsupportedError: vector-valued forward mode" =>
          last.op = "_execute_fwd_legacy.bwd"

\* wrapped_exec_bwd raised for a single tape of a single measurement, a
\* probability measurement of two components
FwdLegacyRaisesVectorWitness ==
    /\ last.op = "_execute_fwd_legacy.bwd"
    /\ last.err = "InterfaceUnsupportedError: vector-valued forward mode"
    /\ Len(frames[last.frame].tapes) = 1
    /\ frames[last.frame].tapes[1].meas = <<"probs">>

\* C12: on every path the result of a tape that measures counts is returned
\* as the dictionaries the backend produced, and no array conversion is
\* applied to it (so none fails on it).
CountsPassThrough ==
    /\ \A fi \in 1..Len(frames) :
          \A i \in 1..Len(frames[fi].tapes) :
              HasCounts(frames[fi].tapes[i]) =>
                  \A q \in 1..Len(frames[fi].res[i].parts) :
                      \A m \in 1..Len(frames[fi].res[i].parts[q]) :
                          frames[fi].res[i].parts[q][m] = "dict"
    /\ last.err # "TypeError: jnp.array of a dictionary"

====
